---- MODULE Spec2Model ----
(***************************************************************************)
(* Model of scripts/assembly/create_coassembly_groups.py: the co-assembly  *)
(* grouping engine (graph builder, consistency refiner, group size         *)
(* balancer, resource estimator) and the driver main() that chains them.   *)
(*                                                                         *)
(* Conventions.                                                            *)
(*  - A Python dict is a function from its keys to their values; a key     *)
(*    that was never set is not in the DOMAIN.                             *)
(*  - A Python list is a sequence.                                         *)
(*  - A text (str) is a sequence of tokens; concatenation of texts is      *)
(*    concatenation of sequences.  A literal is one token.                 *)
(*  - Iterating a Python set of strings visits it in hash order, which is  *)
(*    fixed when the interpreter starts: iter_order is that order (a       *)
(*    sequence holding every sample id once), and a set is visited in the  *)
(*    order its members have in iter_order.                                *)
(*  - Similarity and thresholds are in hundredths.                         *)
(***************************************************************************)
EXTENDS Integers, Sequences, FiniteSets, TLC

VARIABLES
    pc,                    \* position of the driver / of the stage under study
    pairwise_file,         \* pairwise_similarities.csv on disk
    pairwise_df,           \* the similarity table: a sequence of rows
    similarity_threshold,  \* --similarity-threshold
    max_group_size,        \* --max-group-size
    min_group_size,        \* optimize_group_sizes(min_group_size=...)
    target_group_size,     \* optimize_group_sizes(target_group_size=...)
    avg_reads_per_sample,  \* estimate_computational_requirements(avg_reads_per_sample=...)
    metadata,              \* the metadata frame, or NoMetadata
    important_vars,        \* list of important variable names
    iter_order,            \* hash order of the interpreter
    groups,                \* the current group list
    stage_input,           \* the group list handed to the stage that ran last
    summary                \* the aggregate summary written by main

vars == <<pc, pairwise_file, pairwise_df, similarity_threshold, max_group_size, min_group_size,
          target_group_size, avg_reads_per_sample, metadata, important_vars,
          iter_order, groups, stage_input, summary>>

----------------------------------------------------------------------------
(* Bounds of the model *)

\* rows of the similarity table
MaxRows == 2
\* values of --max-group-size in the driver and the graph builder
MaxGroupSizeArg == 3

\* samples of a group of a hand-made group list
MaxGroupLen == 8
\* values of min_group_size, target_group_size and max_group_size of the balancer alone
MaxSizeParam == 3
\* samples of the largest group with a column of numbers
MaxNumericLen == 12

\* sample names, in the order of the names
SampleNames == <<"S1", "S2", "S3", "S4", "S5", "S6", "S7", "S8", "S9", "S10",
                 "S11", "S12", "S13", "S14", "S15", "S16", "S17", "S18", "S19", "S20">>
\* sample ids of the similarity table, in the order of their names
SampleList == SubSeq(SampleNames, 1, 4)
SampleIds == {SampleList[i] : i \in 1..Len(SampleList)}
\* Similarity values and thresholds, in hundredths
SimValues == {85, 90}
Thresholds == {80, 90}

----------------------------------------------------------------------------
(* Constants of the program *)

\* `len(var_values.unique()) <= 10`
MaxCategories == 10
\* `cv > 0.3`, squared, in hundredths: 0.09
CvLimitSq == 9
\* defaults of optimize_group_sizes and estimate_computational_requirements
DefaultMinGroupSize == 2
DefaultTargetGroupSize == 4
DefaultAvgReads == 10000000
\* individual: min(8, max(4, reads / 5000000)), min(4, max(1, reads / 10000000))
IndReadsPerGb == 5000000
IndMinGb == 4
IndMaxGb == 8
IndReadsPerHour == 10000000
IndMinHours == 1
IndMaxHours == 4
\* co-assembly: min(64, max(16, reads / 2000000)), min(12, max(2, reads / 5000000))
CoReadsPerGb == 2000000
CoMinGb == 16
CoMaxGb == 64
CoReadsPerHour == 5000000
CoMinHours == 2
CoMaxHours == 12

----------------------------------------------------------------------------
(* Generic helpers: lists, sets in hash order, dicts *)

Range(s) == {s[i] : i \in 1..Len(s)}

Min2(a, b) == IF a <= b THEN a ELSE b
Max2(a, b) == IF a >= b THEN a ELSE b

\* all orders in which a hash table may hold the members of S
Orders(S) == {o \in [1..Cardinality(S) -> S] : Range(o) = S}

\* `for x in a_set` / list(a_set): the members of S in hash order
SetIter(S, ord) == SelectSeq(ord, LAMBDA x : x \in S)

\* d[k] = v on a dict
SetKey(d, k, v) == [f \in DOMAIN d \cup {k} |-> IF f = k THEN v ELSE d[f]]

----------------------------------------------------------------------------
(* create_kmer_based_groups *)

LitNoSimilar == <<"no similar samples">>
LitKmer == <<"k-mer similarity">>

\* faulty variant of HighSimPairs: the rows are not filtered by the threshold
HighSimPairsUnfiltered(df, threshold) == df

\* faulty variant of HighSimPairs: the comparison is turned around
HighSimPairsBelow(df, threshold) == SelectSeq(df, LAMBDA row : row.Similarity <= threshold)

\* pairwise_df[pairwise_df['Similarity'] >= similarity_threshold]
HighSimPairs(df, threshold) == SelectSeq(df, LAMBDA row : row.Similarity >= threshold)

\* faulty variant of AllSamples: only the Sample1 column is collected
AllSamplesOnlySample1(df) == {df[i].Sample1 : i \in 1..Len(df)}

\* set(pairwise_df['Sample1'].tolist() + pairwise_df['Sample2'].tolist())
AllSamples(df) == {df[i].Sample1 : i \in 1..Len(df)} \cup {df[i].Sample2 : i \in 1..Len(df)}

\* the keys of the dict `connections` in insertion order, after the first n rows
RECURSIVE ConnectionKeys(_, _)
ConnectionKeys(high, n) ==
    IF n = 0 THEN <<>>
    ELSE LET keys == ConnectionKeys(high, n - 1)
             s1 == high[n].Sample1
             s2 == high[n].Sample2
             k1 == IF s1 \in Range(keys) THEN keys ELSE Append(keys, s1)
         IN  IF s2 \in Range(k1) THEN k1 ELSE Append(k1, s2)

\* faulty variant of Connections: only `connections[s1].add(s2)`, the edge is
\* not entered for s2
ConnectionsOneWay(high, s) ==
    {high[i].Sample2 : i \in {j \in 1..Len(high) : high[j].Sample1 = s}}

\* connections[s]: the neighbours of s over the high-similarity rows
Connections(high, s) ==
    {high[i].Sample2 : i \in {j \in 1..Len(high) : high[j].Sample1 = s}}
    \cup {high[i].Sample1 : i \in {j \in 1..Len(high) : high[j].Sample2 = s}}

\* connections.get(current, set())
ConnectionsGet(high, s) == Connections(high, s)

\* faulty variant of VisitNeighbors: `len(component) < max_group_size - 1`
RECURSIVE VisitNeighborsCapEarly(_, _, _, _)
VisitNeighborsCapEarly(nbrs, i, st, maxSize) ==
    IF i > Len(nbrs) THEN st
    ELSE LET neighbor == nbrs[i]
             take == neighbor \notin st.visited /\ Cardinality(st.component) < maxSize - 1
             st2 == IF take
                    THEN [component |-> st.component \cup {neighbor},
                          stack |-> Append(st.stack, neighbor),
                          visited |-> st.visited \cup {neighbor}]
                    ELSE st
         IN  VisitNeighborsCapEarly(nbrs, i + 1, st2, maxSize)

\* faulty variant of VisitNeighbors: `len(component) <= max_group_size`
RECURSIVE VisitNeighborsCapInclusive(_, _, _, _)
VisitNeighborsCapInclusive(nbrs, i, st, maxSize) ==
    IF i > Len(nbrs) THEN st
    ELSE LET neighbor == nbrs[i]
             take == neighbor \notin st.visited /\ Cardinality(st.component) <= maxSize
             st2 == IF take
                    THEN [component |-> st.component \cup {neighbor},
                          stack |-> Append(st.stack, neighbor),
                          visited |-> st.visited \cup {neighbor}]
                    ELSE st
         IN  VisitNeighborsCapInclusive(nbrs, i + 1, st2, maxSize)

\* the body of `for neighbor in connections.get(current, set())`, run over the
\* neighbours nbrs (in iteration order) from index i on; st = [component, stack, visited]
RECURSIVE VisitNeighbors(_, _, _, _)
VisitNeighbors(nbrs, i, st, maxSize) ==
    IF i > Len(nbrs) THEN st
    ELSE LET neighbor == nbrs[i]
             take == neighbor \notin st.visited /\ Cardinality(st.component) < maxSize
             st2 == IF take
                    THEN [component |-> st.component \cup {neighbor},
                          stack |-> Append(st.stack, neighbor),
                          visited |-> st.visited \cup {neighbor}]
                    ELSE st
         IN  VisitNeighbors(nbrs, i + 1, st2, maxSize)

\* `while stack:` of get_connected_component
RECURSIVE ComponentLoop(_, _, _, _)
ComponentLoop(high, st, maxSize, ord) ==
    IF st.stack = <<>> THEN st
    ELSE LET current == st.stack[Len(st.stack)]
             popped == [st EXCEPT !.stack = SubSeq(st.stack, 1, Len(st.stack) - 1)]
             nbrs == SetIter(ConnectionsGet(high, current), ord)
         IN  ComponentLoop(high, VisitNeighbors(nbrs, 1, popped, maxSize), maxSize, ord)

\* get_connected_component(start_sample, connections, visited): the component
\* and the updated `visited`
GetConnectedComponent(high, start, visited, maxSize, ord) ==
    ComponentLoop(high,
                  [component |-> {start}, stack |-> <<start>>,
                   visited |-> visited \cup {start}],
                  maxSize, ord)

\* faulty variant of ComponentGroup: every component found by the traversal is
\* taken for a co-assembly
ComponentGroupAlwaysCoAssembly(component, ord) ==
    [samples |-> SetIter(component, ord), strategy |-> "co-assembly", basis |-> LitKmer]

\* faulty variant of ComponentGroup: `len(component) > 2` for `len(component) > 1`
ComponentGroupOffByOne(component, ord) ==
    IF Cardinality(component) > 2
    THEN [samples |-> SetIter(component, ord), strategy |-> "co-assembly",
          basis |-> LitKmer]
    ELSE [samples |-> SetIter(component, ord), strategy |-> "individual",
          basis |-> LitNoSimilar]

\* the group appended for a component found by the traversal
ComponentGroup(component, ord) ==
    IF Cardinality(component) > 1
    THEN [samples |-> SetIter(component, ord), strategy |-> "co-assembly",
          basis |-> LitKmer]
    ELSE [samples |-> SetIter(component, ord), strategy |-> "individual",
          basis |-> LitNoSimilar]

\* `for sample in connections:` from key index i on; acc = [groups, visited]
RECURSIVE ComponentsLoop(_, _, _, _, _, _)
ComponentsLoop(high, keys, i, acc, maxSize, ord) ==
    IF i > Len(keys) THEN acc
    ELSE LET sample == keys[i]
         IN  IF sample \in acc.visited
             THEN ComponentsLoop(high, keys, i + 1, acc, maxSize, ord)
             ELSE LET r == GetConnectedComponent(high, sample, acc.visited, maxSize, ord)
                  IN  ComponentsLoop(high, keys, i + 1,
                                     [groups |-> Append(acc.groups,
                                                        ComponentGroup(r.component, ord)),
                                      visited |-> r.visited],
                                     maxSize, ord)

\* the group of a sample outside every high-similarity pair
UnconnectedGroup(sample) ==
    [samples |-> <<sample>>, strategy |-> "individual", basis |-> LitNoSimilar]

\* the groups of the short-circuit return (no high-similarity pair)
ShortCircuitGroup(sample) ==
    [samples |-> <<sample>>, strategy |-> "individual"]

CreateKmerBasedGroups(df, threshold, maxSize, ord) ==
    LET high == HighSimPairs(df, threshold)
    IN  IF Len(high) = 0
        THEN LET all_samples == SetIter(AllSamples(df), ord)
             IN  [i \in 1..Len(all_samples) |-> ShortCircuitGroup(all_samples[i])]
        ELSE LET keys == ConnectionKeys(high, Len(high))
                 acc == ComponentsLoop(high, keys, 1,
                                       [groups |-> <<>>, visited |-> {}], maxSize, ord)
                 unconnected == AllSamples(df) \ acc.visited
                 singles == SetIter(unconnected, ord)
             IN  acc.groups \o [i \in 1..Len(singles) |-> UnconnectedGroup(singles[i])]

----------------------------------------------------------------------------
(* refine_groups_with_variables *)

\* metadata is None
NoMetadata == [none |-> TRUE]

\* a missing cell of the frame (NaN) and a cell holding v
NaN == [na |-> TRUE]
Val(v) == [na |-> FALSE, v |-> v]

LitSplit == <<"variable-based split: ">>
LitConsistent == <<"k-mer similarity + consistent ">>

\* sep.join(texts), each text a token sequence
RECURSIVE Join(_, _)
Join(texts, sep) ==
    IF Len(texts) = 0 THEN <<>>
    ELSE IF Len(texts) = 1 THEN texts[1]
    ELSE texts[1] \o <<sep>> \o Join(Tail(texts), sep)

\* sep.join(names), each name a string
JoinNames(names, sep) == Join([i \in 1..Len(names) |-> <<names[i]>>], sep)

\* metadata[metadata['Sample'].isin(group['samples'])]
GroupMetadata(md, samples) ==
    SelectSeq(md.rows, LAMBDA r : r.Sample \in Range(samples))

\* faulty variant of VarValues: no dropna(), a missing cell counts as the value "nan"
VarValuesKeepNaN(rows, var) ==
    [i \in 1..Len(rows) |-> IF rows[i][var].na THEN "nan" ELSE rows[i][var].v]

\* group_metadata[var].dropna(): the non-missing values of the column
VarValues(rows, var) ==
    LET present == SelectSeq(rows, LAMBDA r : ~r[var].na)
    IN  [i \in 1..Len(present) |-> present[i][var].v]

\* Series.unique(): the distinct values in order of first appearance
RECURSIVE Unique(_)
Unique(values) ==
    IF Len(values) = 0 THEN <<>>
    ELSE LET front == Unique(SubSeq(values, 1, Len(values) - 1))
             last == values[Len(values)]
         IN  IF last \in Range(front) THEN front ELSE Append(front, last)

RECURSIVE SumSeq(_)
SumSeq(values) == IF Len(values) = 0 THEN 0 ELSE values[1] + SumSeq(Tail(values))

SumSquares(values) == SumSeq([i \in 1..Len(values) |-> values[i] * values[i]])

\* var_values.mean() == 0: the mean of whole numbers is 0 exactly when their sum is
MeanIsZero(values) == SumSeq(values) = 0

\* the square of std()/mean() as the fraction num/den (std with ddof = 1):
\* n (n Q - S^2) / ((n - 1) S^2), S the sum and Q the sum of squares
CvSquared(values) ==
    LET n == Len(values)
        S == SumSeq(values)
        Q == SumSquares(values)
    IN  [num |-> n * (n * Q - S * S), den |-> (n - 1) * S * S]

\* faulty variant of CvHigh: a mean of 0 gives cv = 0
CvHighZeroMeanLow(values) ==
    IF MeanIsZero(values) THEN FALSE
    ELSE IF SumSeq(values) < 0 THEN FALSE
    ELSE LET c == CvSquared(values) IN 100 * c.num > CvLimitSq * c.den

\* cv > 0.3 (cv = inf when the mean is 0, cv < 0 when the mean is negative)
CvHigh(values) ==
    IF MeanIsZero(values) THEN TRUE
    ELSE IF SumSeq(values) < 0 THEN FALSE
    ELSE LET c == CvSquared(values) IN 100 * c.num > CvLimitSq * c.den

\* f"{cv:.2f}": cv in hundredths, rounded to the nearest: the least h in lo..hi
\* with (h + 1/2)^2 > 10000 cv^2, found by bisection
RECURSIVE RoundCv(_, _, _)
RoundCv(c, lo, hi) ==
    IF lo >= hi THEN lo
    ELSE LET mid == (lo + hi) \div 2
         IN  IF (2 * mid + 1) * (2 * mid + 1) > (40000 * c.num) \div c.den
             THEN RoundCv(c, lo, mid)
             ELSE RoundCv(c, mid + 1, hi)

CvText(values) ==
    IF MeanIsZero(values) THEN "inf" ELSE RoundCv(CvSquared(values), 0, 20000)

\* faulty variant of SplitReason: a variable that is no column of the metadata
\* flags the group
SplitReasonNoColumnFlags(md, rows, var) ==
    IF var \notin md.columns THEN <<"different ", var, " values: ", <<>>>>
    ELSE LET var_values == VarValues(rows, var)
         IN  IF Len(var_values) = 0 THEN <<>>
             ELSE IF md.dtype[var] = "object" \/ Len(Unique(var_values)) <= MaxCategories
                  THEN IF Len(Unique(var_values)) > 1
                       THEN <<"different ", var, " values: ", Unique(var_values)>>
                       ELSE <<>>
                  ELSE IF CvHigh(var_values)
                       THEN <<"high variability in ", var, " (CV=", CvText(var_values), ")">>
                       ELSE <<>>

\* faulty variant of SplitReason: the dtype alone decides, a column of numbers
\* always goes through the coefficient of variation
SplitReasonByDtype(md, rows, var) ==
    IF var \notin md.columns THEN <<>>
    ELSE LET var_values == VarValues(rows, var)
         IN  IF Len(var_values) = 0 THEN <<>>
             ELSE IF md.dtype[var] = "object"
                  THEN IF Len(Unique(var_values)) > 1
                       THEN <<"different ", var, " values: ", Unique(var_values)>>
                       ELSE <<>>
                  ELSE IF CvHigh(var_values)
                       THEN <<"high variability in ", var, " (CV=", CvText(var_values), ")">>
                       ELSE <<>>

\* one pass of `for var in important_vars` on a group's rows: the reason
\* appended to split_reason, or <<>> when the variable does not flag the group
SplitReason(md, rows, var) ==
    IF var \notin md.columns THEN <<>>
    ELSE LET var_values == VarValues(rows, var)
         IN  IF Len(var_values) = 0 THEN <<>>
             ELSE IF md.dtype[var] = "object" \/ Len(Unique(var_values)) <= MaxCategories
                  THEN IF Len(Unique(var_values)) > 1
                       THEN <<"different ", var, " values: ", Unique(var_values)>>
                       ELSE <<>>
                  ELSE IF CvHigh(var_values)
                       THEN <<"high variability in ", var, " (CV=", CvText(var_values), ")">>
                       ELSE <<>>

\* split_reason after the loop over important_vars
SplitReasons(md, rows, ivars) ==
    SelectSeq([i \in 1..Len(ivars) |-> SplitReason(md, rows, ivars[i])],
              LAMBDA r : r # <<>>)

\* faulty variant of SplitGroups: the last sample of the group gets no group
SplitGroupsDropLast(group, reasons) ==
    [i \in 1..(Len(group.samples) - 1) |->
        [samples |-> <<group.samples[i]>>, strategy |-> "individual",
         basis |-> LitSplit \o Join(reasons, "; ")]]

\* the groups that replace a group that is split
SplitGroups(group, reasons) ==
    [i \in 1..Len(group.samples) |->
        [samples |-> <<group.samples[i]>>, strategy |-> "individual",
         basis |-> LitSplit \o Join(reasons, "; ")]]

\* faulty variant of KeptBasis: the note is appended to the basis the group has
KeptBasisAppended(group, ivars) ==
    (IF "basis" \in DOMAIN group THEN group.basis ELSE <<"k-mer similarity">>)
    \o <<" + consistent ">> \o JoinNames(ivars, ", ")

\* the basis written on a group that is kept
KeptBasis(group, ivars) == LitConsistent \o JoinNames(ivars, ", ")

\* faulty variant of RefineGroup: a group without metadata rows is not passed
\* through but treated like a group that no variable flags
RefineGroupNoRowsCheck(group, md, ivars) ==
    IF Len(group.samples) <= 1 THEN <<group>>
    ELSE LET rows == GroupMetadata(md, group.samples)
             reasons == SplitReasons(md, rows, ivars)
         IN  IF Len(reasons) > 0
             THEN SplitGroups(group, reasons)
             ELSE <<SetKey(group, "basis", KeptBasis(group, ivars))>>

\* what one group contributes to refined_groups
RefineGroup(group, md, ivars) ==
    IF Len(group.samples) <= 1 THEN <<group>>
    ELSE LET rows == GroupMetadata(md, group.samples)
         IN  IF Len(rows) = 0 THEN <<group>>
             ELSE LET reasons == SplitReasons(md, rows, ivars)
                  IN  IF Len(reasons) > 0
                      THEN SplitGroups(group, reasons)
                      ELSE <<SetKey(group, "basis", KeptBasis(group, ivars))>>

RECURSIVE Flatten(_)
Flatten(lists) == IF Len(lists) = 0 THEN <<>> ELSE lists[1] \o Flatten(Tail(lists))

RefineGroupsWithVariables(gs, md, ivars) ==
    IF Len(ivars) = 0 \/ md = NoMetadata THEN gs
    ELSE Flatten([i \in 1..Len(gs) |-> RefineGroup(gs[i], md, ivars)])

----------------------------------------------------------------------------
(* optimize_group_sizes *)

LitSizeOptimized == <<" (size-optimized)">>

\* group.get('basis', 'k-mer similarity')
BasisOrDefault(group) == IF "basis" \in DOMAIN group THEN group.basis ELSE LitKmer

\* n_subgroups and subgroup_size
NSubgroups(n, target) == (n + target - 1) \div target
SubgroupSize(n, target) == n \div NSubgroups(n, target)

\* faulty variant of SubgroupSamples: the last sub-group is cut like the others
SubgroupSamplesNoRemainder(samples, i, target) ==
    LET n == Len(samples)
        start_idx == i * SubgroupSize(n, target)
    IN  SubSeq(samples, start_idx + 1, start_idx + SubgroupSize(n, target))

\* the samples of sub-group i (0-based), as the slices of the code
SubgroupSamples(samples, i, target) ==
    LET n == Len(samples)
        start_idx == i * SubgroupSize(n, target)
    IN  IF i = NSubgroups(n, target) - 1
        THEN SubSeq(samples, start_idx + 1, n)
        ELSE SubSeq(samples, start_idx + 1, start_idx + SubgroupSize(n, target))

\* the sub-groups a large group is split into
SplitLargeGroup(group, target) ==
    [k \in 1..NSubgroups(Len(group.samples), target) |->
        [samples |-> SubgroupSamples(group.samples, k - 1, target),
         strategy |-> "co-assembly",
         basis |-> BasisOrDefault(group) \o LitSizeOptimized]]

\* faulty variant of OptimizeGroup: `n_samples < max_group_size`, a group of
\* exactly max_group_size samples is split
OptimizeGroupSplitsAtMax(group, maxSize, target) ==
    IF group.strategy = "individual" THEN <<group>>
    ELSE IF Len(group.samples) < maxSize THEN <<group>>
    ELSE SplitLargeGroup(group, target)

\* faulty variant of OptimizeGroup: the basis of a co-assembly group that is
\* not split is marked as size-optimized too
OptimizeGroupMarksAll(group, maxSize, target) ==
    IF group.strategy = "individual" THEN <<group>>
    ELSE IF Len(group.samples) <= maxSize
         THEN <<SetKey(group, "basis", BasisOrDefault(group) \o LitSizeOptimized)>>
         ELSE SplitLargeGroup(group, target)

\* what one group contributes to optimized_groups
OptimizeGroup(group, maxSize, target) ==
    IF group.strategy = "individual" THEN <<group>>
    ELSE IF Len(group.samples) <= maxSize THEN <<group>>
    ELSE SplitLargeGroup(group, target)

\* faulty variant of OptimizeGroupSizes: two co-assembly groups that are both
\* smaller than min_group_size are put together
OptimizeGroupSizesMerging(gs, minSize, maxSize, target) ==
    IF /\ Len(gs) = 2
       /\ \A i \in 1..2 : gs[i].strategy = "co-assembly" /\ Len(gs[i].samples) < minSize
    THEN <<[samples |-> gs[1].samples \o gs[2].samples, strategy |-> "co-assembly",
            basis |-> LitKmer]>>
    ELSE Flatten([i \in 1..Len(gs) |-> OptimizeGroup(gs[i], maxSize, target)])

OptimizeGroupSizes(gs, minSize, maxSize, target) ==
    Flatten([i \in 1..Len(gs) |-> OptimizeGroup(gs[i], maxSize, target)])

----------------------------------------------------------------------------
(* estimate_computational_requirements *)

\* faulty variant of ClampedQuotient: the quotient is rounded up
ClampedQuotientRoundedUp(reads, per, lo, hi) ==
    IF reads <= lo * per THEN lo
    ELSE IF reads >= hi * per THEN hi
    ELSE (reads + per - 1) \div per

\* int(min(hi, max(lo, reads / per))) for integers lo <= hi and per > 0
ClampedQuotient(reads, per, lo, hi) ==
    IF reads <= lo * per THEN lo
    ELSE IF reads >= hi * per THEN hi
    ELSE reads \div per

\* faulty variant of EstimatedReads: the average is divided by the number of samples
EstimatedReadsDivided(group, avg) == avg \div Len(group.samples)

EstimatedReads(group, avg) == Len(group.samples) * avg

EstMemoryGb(group, avg) ==
    IF group.strategy = "individual"
    THEN ClampedQuotient(EstimatedReads(group, avg), IndReadsPerGb, IndMinGb, IndMaxGb)
    ELSE ClampedQuotient(EstimatedReads(group, avg), CoReadsPerGb, CoMinGb, CoMaxGb)

EstTimeHours(group, avg) ==
    IF group.strategy = "individual"
    THEN ClampedQuotient(EstimatedReads(group, avg), IndReadsPerHour, IndMinHours, IndMaxHours)
    ELSE ClampedQuotient(EstimatedReads(group, avg), CoReadsPerHour, CoMinHours, CoMaxHours)

\* faulty variant of EstimateGroup: a group without a basis gets the basis
\* 'not specified'
EstimateGroupWritesBasis(group, avg) ==
    SetKey(SetKey(SetKey(SetKey(group, "basis",
                                IF "basis" \in DOMAIN group THEN group.basis
                                ELSE <<"not specified">>),
                         "estimated_memory_gb", EstMemoryGb(group, avg)),
                  "estimated_time_hours", EstTimeHours(group, avg)),
           "estimated_reads", EstimatedReads(group, avg))

EstimateGroup(group, avg) ==
    SetKey(SetKey(SetKey(group, "estimated_memory_gb", EstMemoryGb(group, avg)),
                  "estimated_time_hours", EstTimeHours(group, avg)),
           "estimated_reads", EstimatedReads(group, avg))

EstimateComputationalRequirements(gs, avg) ==
    [i \in 1..Len(gs) |-> EstimateGroup(gs[i], avg)]

----------------------------------------------------------------------------
(* The inputs *)

Row(a, b, s) == [Sample1 |-> a, Sample2 |-> b, Similarity |-> s]

\* the unordered pair of a row
PairOf(row) == {row.Sample1, row.Sample2}

\* pairwise_similarities.csv: absent, or holding the rows t
MissingFile == [exists |-> FALSE]
File(t) == [exists |-> TRUE, rows |-> t]

\* the tables of at most MaxRows rows, one row per unordered pair of samples,
\* Sample1 before Sample2 in the order of the names (as itertools.combinations
\* lists the pairs); the rows come in any order
RowChoices ==
    {Row(SampleList[p[1]], SampleList[p[2]], sim) :
        p \in {q \in (1..Len(SampleList)) \X (1..Len(SampleList)) : q[1] < q[2]},
        sim \in SimValues}

Tables ==
    UNION {{t \in [1..n -> RowChoices] :
              \A a, b \in 1..n : a # b => PairOf(t[a]) # PairOf(t[b])} : n \in 0..MaxRows}

\* a metadata frame with the column Host (text), one row per sample of `present`,
\* in the order of the names; host[s] is the cell of sample s
HostFrame(present, host) ==
    [columns |-> {"Sample", "Host"},
     dtype |-> [c \in {"Sample", "Host"} |-> "object"],
     rows |-> [i \in 1..Len(SetIter(present, SampleList)) |->
                  [Sample |-> SetIter(present, SampleList)[i],
                   Host |-> host[SetIter(present, SampleList)[i]]]]]

HostCells == {Val("A"), Val("B"), NaN}

\* the metadata the driver is run with: none; Host = B, A, A, missing; and a frame
\* that only knows the first sample
DriverMetadata ==
    {NoMetadata,
     HostFrame(SampleIds, [s \in SampleIds |->
                             IF s = SampleList[1] THEN Val("B")
                             ELSE IF s = SampleList[4] THEN NaN ELSE Val("A")]),
     HostFrame({SampleList[1]}, [s \in SampleIds |-> Val("A")])}

\* pH is no column of the metadata
DriverImportantVars == {<<>>, <<"Host", "pH">>}

\* the hash orders the driver is run with: the order of the names and its reverse
Reverse(s) == [i \in 1..Len(s) |-> s[Len(s) + 1 - i]]
DriverOrders == {SampleList, Reverse(SampleList)}

----------------------------------------------------------------------------
(* main *)

\* after parse_args: the files on disk and the arguments
Init ==
    /\ pc = "load"
    /\ pairwise_file \in {MissingFile} \cup {File(t) : t \in Tables}
    /\ pairwise_df = <<>>
    /\ similarity_threshold \in Thresholds
    /\ max_group_size \in 1..MaxGroupSizeArg
    /\ min_group_size = DefaultMinGroupSize
    /\ target_group_size = DefaultTargetGroupSize
    /\ avg_reads_per_sample = DefaultAvgReads
    /\ metadata \in DriverMetadata
    /\ important_vars \in DriverImportantVars
    /\ iter_order \in DriverOrders
    /\ groups = <<>>
    /\ stage_input = <<>>
    /\ summary = <<>>

\* load_similarity_data: FileNotFoundError is caught by main, which exits 1
Load ==
    /\ pc = "load"
    /\ IF pairwise_file.exists
       THEN /\ pairwise_df' = pairwise_file.rows
            /\ pc' = "create"
       ELSE /\ pc' = "failed"
            /\ UNCHANGED pairwise_df
    /\ UNCHANGED <<pairwise_file, similarity_threshold, max_group_size, min_group_size,
                   target_group_size, avg_reads_per_sample, metadata, important_vars,
                   iter_order, groups, stage_input, summary>>

Create ==
    /\ pc = "create"
    /\ groups' = CreateKmerBasedGroups(pairwise_df, similarity_threshold,
                                       max_group_size, iter_order)
    /\ stage_input' = groups
    /\ pc' = "refine"
    /\ UNCHANGED <<pairwise_file, pairwise_df, similarity_threshold, max_group_size,
                   min_group_size, target_group_size, avg_reads_per_sample, metadata,
                   important_vars, iter_order, summary>>

Refine ==
    /\ pc = "refine"
    /\ groups' = RefineGroupsWithVariables(groups, metadata, important_vars)
    /\ stage_input' = groups
    /\ pc' = "optimize"
    /\ UNCHANGED <<pairwise_file, pairwise_df, similarity_threshold, max_group_size,
                   min_group_size, target_group_size, avg_reads_per_sample, metadata,
                   important_vars, iter_order, summary>>

Optimize ==
    /\ pc = "optimize"
    /\ groups' = OptimizeGroupSizes(groups, min_group_size, max_group_size,
                                    target_group_size)
    /\ stage_input' = groups
    /\ pc' = "estimate"
    /\ UNCHANGED <<pairwise_file, pairwise_df, similarity_threshold, max_group_size,
                   min_group_size, target_group_size, avg_reads_per_sample, metadata,
                   important_vars, iter_order, summary>>

Estimate ==
    /\ pc = "estimate"
    /\ groups' = EstimateComputationalRequirements(groups, avg_reads_per_sample)
    /\ stage_input' = groups
    /\ pc' = "summarize"
    /\ UNCHANGED <<pairwise_file, pairwise_df, similarity_threshold, max_group_size,
                   min_group_size, target_group_size, avg_reads_per_sample, metadata,
                   important_vars, iter_order, summary>>

\* sum(1 for g in groups if g['strategy'] == strategy)
CountStrategy(gs, strategy) ==
    Cardinality({i \in 1..Len(gs) : gs[i].strategy = strategy})

\* max(xs) of a non-empty list of numbers
MaxOf(xs) == CHOOSE m \in Range(xs) : \A x \in Range(xs) : x <= m

\* faulty variant of Summary: total_samples counts the groups
SummaryCountsGroups(gs) ==
    [total_groups |-> Len(gs),
     individual_assemblies |-> CountStrategy(gs, "individual"),
     co_assemblies |-> CountStrategy(gs, "co-assembly"),
     total_samples |-> Len(gs),
     largest_group_size |-> MaxOf([i \in 1..Len(gs) |-> Len(gs[i].samples)]),
     estimated_total_memory_gb |-> SumSeq([i \in 1..Len(gs) |-> gs[i].estimated_memory_gb]),
     estimated_total_time_hours |-> SumSeq([i \in 1..Len(gs) |-> gs[i].estimated_time_hours])]

Summary(gs) ==
    [total_groups |-> Len(gs),
     individual_assemblies |-> CountStrategy(gs, "individual"),
     co_assemblies |-> CountStrategy(gs, "co-assembly"),
     total_samples |-> SumSeq([i \in 1..Len(gs) |-> Len(gs[i].samples)]),
     largest_group_size |-> MaxOf([i \in 1..Len(gs) |-> Len(gs[i].samples)]),
     estimated_total_memory_gb |-> SumSeq([i \in 1..Len(gs) |-> gs[i].estimated_memory_gb]),
     estimated_total_time_hours |-> SumSeq([i \in 1..Len(gs) |-> gs[i].estimated_time_hours])]

\* faulty variant of Summarize: `max(..., default=0)`, an empty group list is
\* summarised like any other
SummarizeEmptyToo ==
    /\ pc = "summarize"
    /\ summary' = IF Len(groups) = 0
                  THEN [total_groups |-> 0, individual_assemblies |-> 0,
                        co_assemblies |-> 0, total_samples |-> 0,
                        largest_group_size |-> 0, estimated_total_memory_gb |-> 0,
                        estimated_total_time_hours |-> 0]
                  ELSE Summary(groups)
    /\ pc' = "done"
    /\ UNCHANGED <<pairwise_file, pairwise_df, similarity_threshold, max_group_size,
                   min_group_size, target_group_size, avg_reads_per_sample, metadata,
                   important_vars, iter_order, groups, stage_input>>

\* the summary: max() of an empty list raises ValueError, main exits 1
Summarize ==
    /\ pc = "summarize"
    /\ IF Len(groups) = 0
       THEN /\ pc' = "failed"
            /\ UNCHANGED summary
       ELSE /\ summary' = Summary(groups)
            /\ pc' = "done"
    /\ UNCHANGED <<pairwise_file, pairwise_df, similarity_threshold, max_group_size,
                   min_group_size, target_group_size, avg_reads_per_sample, metadata,
                   important_vars, iter_order, groups, stage_input>>

Next == Load \/ Create \/ Refine \/ Optimize \/ Estimate \/ Summarize

Spec == Init /\ [][Next]_vars

----------------------------------------------------------------------------
(* The stages on their own, each from the inputs it accepts *)

\* the variables a stage on its own does not read
IdleDriver ==
    /\ pairwise_file = MissingFile
    /\ pairwise_df = <<>>
    /\ similarity_threshold \in {80}
    /\ iter_order = SampleList
    /\ stage_input = <<>>
    /\ summary = <<>>

\* create_kmer_based_groups on any table, under any hash order
InitBuilder ==
    /\ pc = "create"
    /\ pairwise_df \in Tables
    /\ pairwise_file = File(pairwise_df)
    /\ similarity_threshold \in Thresholds
    /\ max_group_size \in 1..MaxGroupSizeArg
    /\ min_group_size = DefaultMinGroupSize
    /\ target_group_size = DefaultTargetGroupSize
    /\ avg_reads_per_sample = DefaultAvgReads
    /\ metadata = NoMetadata
    /\ important_vars = <<>>
    /\ iter_order \in Orders(SampleIds)
    /\ groups = <<>>
    /\ stage_input = <<>>
    /\ summary = <<>>

SpecBuilder == InitBuilder /\ [][Create]_vars

\* a group of n samples, names[first] onwards
MakeGroup(first, n, strategy, basis) ==
    IF basis = <<>>
    THEN [samples |-> SubSeq(SampleNames, first, first + n - 1), strategy |-> strategy]
    ELSE [samples |-> SubSeq(SampleNames, first, first + n - 1), strategy |-> strategy,
          basis |-> basis]

Strategies == {"individual", "co-assembly"}
\* the basis of a hand-made group: none (<<>>), or a text
InputBases == {<<>>, LitKmer, LitConsistent \o <<"Host">>}

\* lists of one or two disjoint groups of at most maxLen samples each
GroupLists(maxLen) ==
    {<<MakeGroup(1, n, st, b)>> : n \in 1..maxLen, st \in Strategies, b \in InputBases}
    \cup {<<MakeGroup(1, q[1], q[3], q[5]), MakeGroup(q[1] + 1, q[2], q[4], q[6])>> :
            q \in (1..maxLen) \X (1..maxLen) \X Strategies \X Strategies
                  \X InputBases \X InputBases}

\* optimize_group_sizes on any group list, with any sizes
InitBalancer ==
    /\ pc = "optimize"
    /\ IdleDriver
    /\ groups \in GroupLists(MaxGroupLen)
    /\ min_group_size \in 1..MaxSizeParam
    /\ target_group_size \in 1..MaxSizeParam
    /\ max_group_size \in 1..MaxSizeParam
    /\ avg_reads_per_sample = DefaultAvgReads
    /\ metadata = NoMetadata
    /\ important_vars = <<>>

SpecBalancer == InitBalancer /\ [][Optimize]_vars

AvgReadsChoices == {-10000000, 0, 10000000, 12000000, 50000000}

\* estimate_computational_requirements on any group list
InitEstimator ==
    /\ pc = "estimate"
    /\ IdleDriver
    /\ groups \in GroupLists(MaxGroupLen)
    /\ min_group_size = DefaultMinGroupSize
    /\ target_group_size = DefaultTargetGroupSize
    /\ max_group_size \in {MaxGroupLen}
    /\ avg_reads_per_sample \in AvgReadsChoices
    /\ metadata = NoMetadata
    /\ important_vars = <<>>

SpecEstimator == InitEstimator /\ [][Estimate]_vars

\* the frames with the column Host: rows for any set of samples, any cells
HostFrames ==
    {HostFrame(present, host) : present \in SUBSET SampleIds, host \in [SampleIds -> HostCells]}

\* refine_groups_with_variables on any group list over the samples of SampleList
InitRefiner ==
    /\ pc = "refine"
    /\ IdleDriver
    /\ groups \in GroupLists(Len(SampleList) - 1)
    /\ \A i \in 1..Len(groups) : Range(groups[i].samples) \subseteq SampleIds
    /\ min_group_size = DefaultMinGroupSize
    /\ target_group_size = DefaultTargetGroupSize
    /\ max_group_size \in {MaxGroupLen}
    /\ avg_reads_per_sample = DefaultAvgReads
    /\ metadata \in {NoMetadata} \cup HostFrames
    /\ important_vars \in DriverImportantVars \cup {<<"pH">>, <<"Host">>}

\* refine_groups_with_variables applied to its own output
RefineAgain ==
    /\ pc = "optimize"
    /\ groups' = RefineGroupsWithVariables(groups, metadata, important_vars)
    /\ stage_input' = groups
    /\ pc' = "refined twice"
    /\ UNCHANGED <<pairwise_file, pairwise_df, similarity_threshold, max_group_size,
                   min_group_size, target_group_size, avg_reads_per_sample, metadata,
                   important_vars, iter_order, summary>>

SpecRefiner == InitRefiner /\ [][Refine \/ RefineAgain]_vars

\* a metadata frame with the column pH of the given dtype, one row per sample
\* of the first n names; cells[i] is the cell of the i-th sample
PhFrame(n, dtype, cells) ==
    [columns |-> {"Sample", "pH"},
     dtype |-> [c \in {"Sample", "pH"} |-> IF c = "pH" THEN dtype ELSE "object"],
     rows |-> [i \in 1..n |-> [Sample |-> SampleNames[i], pH |-> cells[i]]]]

\* n cells, the first `missing` of them missing, the others going round the d
\* numbers base, base + 1, ...
PhCells(n, missing, d, base) ==
    [i \in 1..n |-> IF i <= missing THEN NaN ELSE Val(base + ((i - 1) % d))]

PhGroupSizes == {2, MaxCategories, MaxCategories + 1, MaxNumericLen}
PhBases == {-6, -5, 0, 6, 7, 100}
PhDtypes == {"object", "float64"}

\* refine_groups_with_variables on one co-assembly group with a column pH of
\* numbers
InitRefinerNumeric ==
    /\ pc = "refine"
    /\ IdleDriver
    /\ \E n \in PhGroupSizes :
          /\ groups = <<MakeGroup(1, n, "co-assembly", LitKmer)>>
          /\ \E missing \in 0..2, d \in 1..n, base \in PhBases, dtype \in PhDtypes :
                metadata = PhFrame(n, dtype, PhCells(n, missing, d, base))
    /\ min_group_size = DefaultMinGroupSize
    /\ target_group_size = DefaultTargetGroupSize
    /\ max_group_size \in {MaxNumericLen}
    /\ avg_reads_per_sample = DefaultAvgReads
    /\ important_vars = <<"pH">>

SpecRefinerNumeric == InitRefinerNumeric /\ [][Refine]_vars

\* the three stages after the builder, chained as main chains them, on any
\* group list; the metadata knows at most the samples of SampleList
InitStages ==
    /\ pc = "refine"
    /\ IdleDriver
    /\ groups \in GroupLists(MaxGroupLen)
    /\ min_group_size = DefaultMinGroupSize
    /\ target_group_size \in 1..MaxSizeParam
    /\ max_group_size \in 1..MaxSizeParam
    /\ avg_reads_per_sample = DefaultAvgReads
    /\ metadata \in DriverMetadata
    /\ important_vars = <<"Host", "pH">>

SpecStages == InitStages /\ [][Refine \/ Optimize \/ Estimate]_vars

----------------------------------------------------------------------------
(* Properties *)

\* the samples named in the table, by either column
TableSamples ==
    {s \in SampleIds : \E i \in 1..Len(pairwise_df) :
        s = pairwise_df[i].Sample1 \/ s = pairwise_df[i].Sample2}

\* the places (group, position) at which sample s occurs in the group list gs
Places(gs, s) ==
    {q \in (1..Len(gs)) \X (1..MaxGroupLen) :
        q[2] <= Len(gs[q[1]].samples) /\ gs[q[1]].samples[q[2]] = s}

\* the samples of the group list gs
SamplesOf(gs) == UNION {Range(gs[i].samples) : i \in 1..Len(gs)}

\* the driver has run the stage named, and those before it
AfterCreate == pc \in {"refine", "optimize", "estimate", "summarize", "done"}
AfterEstimate == pc \in {"summarize", "done"}

\* a basis that starts with the literal lit
StartsWith(g, lit) ==
    "basis" \in DOMAIN g /\ Len(g.basis) >= Len(lit) /\ SubSeq(g.basis, 1, Len(lit)) = lit

\* C1: after the four stages of the driver, on a non-empty table, every sample
\* of the table is in exactly one group, at one position, no group is empty
\* and no group holds a sample that is not in the table.
C1_Partition ==
    (AfterEstimate /\ Len(pairwise_df) > 0) =>
        /\ \A s \in TableSamples : Cardinality(Places(groups, s)) = 1
        /\ \A i \in 1..Len(groups) : Len(groups[i].samples) > 0
        /\ SamplesOf(groups) \subseteq TableSamples

\* the driver ended well on four samples with a co-assembly group and a group
\* the refiner split
C1_Witness ==
    /\ pc = "done"
    /\ Cardinality(TableSamples) = 4
    /\ \E i \in 1..Len(groups) : groups[i].strategy = "co-assembly"
    /\ \E i \in 1..Len(groups) : StartsWith(groups[i], LitSplit)

\* C2: in the output of every stage of the driver, a group whose strategy is
\* 'individual' has exactly one sample.
C2_IndividualIsSingle ==
    AfterCreate =>
        \A i \in 1..Len(groups) :
            groups[i].strategy = "individual" => Len(groups[i].samples) = 1

\* the refiner has turned a co-assembly group into individual groups, next to a
\* co-assembly group it kept
C2_Witness ==
    /\ pc = "optimize"
    /\ \E i \in 1..Len(stage_input) : stage_input[i].strategy = "co-assembly"
    /\ \E i \in 1..Len(groups) :
          groups[i].strategy = "individual" /\ StartsWith(groups[i], LitSplit)
    /\ \E i \in 1..Len(groups) : groups[i].strategy = "co-assembly"

\* the sizes the balancer is documented for
SizesInOrder ==
    1 <= min_group_size /\ min_group_size <= target_group_size
    /\ target_group_size <= max_group_size

\* the balancer has run on the list stage_input and returned groups
Balanced == pc = "estimate"

\* group i of the balancer's input is one it splits
IsSplit(i) ==
    stage_input[i].strategy = "co-assembly" /\ Len(stage_input[i].samples) > max_group_size

\* the groups returned for the split input group i, in the order of the output:
\* those that start inside its samples (the input groups are disjoint)
SubGroupsOf(i) ==
    SelectSeq(groups, LAMBDA g : g.samples[1] \in Range(stage_input[i].samples))

\* ceil(n / d) and floor(n / d), for n >= 1, d >= 1
CeilDiv(n, d) == CHOOSE k \in 1..n : (k - 1) * d < n /\ n <= k * d
FloorDiv(n, d) == CHOOSE k \in 0..n : k * d <= n /\ n < (k + 1) * d

\* C3: with 1 <= min_group_size <= target_group_size <= max_group_size, every
\* 'co-assembly' group the balancer returns has at least 1 and at most
\* max_group_size samples.
C3_CoAssemblyWithinMax ==
    (Balanced /\ SizesInOrder) =>
        \A i \in 1..Len(groups) :
            groups[i].strategy = "co-assembly" =>
                (1 <= Len(groups[i].samples) /\ Len(groups[i].samples) <= max_group_size)

\* C4: with min_group_size <= target_group_size <= max_group_size, the last
\* sub-group of a split co-assembly group has at most
\* target_group_size + target_group_size - 1 samples.
C4_LastSubGroupBound ==
    (Balanced /\ SizesInOrder) =>
        \A i \in 1..Len(stage_input) :
            IsSplit(i) =>
                LET subs == SubGroupsOf(i)
                IN  Len(subs[Len(subs)].samples) <= target_group_size + target_group_size - 1

\* C5: a split co-assembly group of n samples gives k = ceil(n / target_group_size)
\* sub-groups; each but the last has floor(n / k) samples, which is at most
\* target_group_size; their samples, concatenated in order, are the samples of
\* the group; each has strategy 'co-assembly' and the basis of the group (or
\* 'k-mer similarity' when it has none) followed by ' (size-optimized)'.
C5_SplitShape ==
    Balanced =>
        \A i \in 1..Len(stage_input) :
            IsSplit(i) =>
                LET subs == SubGroupsOf(i)
                    n == Len(stage_input[i].samples)
                    k == CeilDiv(n, target_group_size)
                IN  /\ Len(subs) = k
                    /\ \A j \in 1..(k - 1) : Len(subs[j].samples) = FloorDiv(n, k)
                    /\ FloorDiv(n, k) <= target_group_size
                    /\ Flatten([j \in 1..Len(subs) |-> subs[j].samples])
                          = stage_input[i].samples
                    /\ \A j \in 1..Len(subs) :
                          /\ subs[j].strategy = "co-assembly"
                          /\ subs[j].basis =
                                (IF "basis" \in DOMAIN stage_input[i]
                                 THEN stage_input[i].basis ELSE <<"k-mer similarity">>)
                                \o <<" (size-optimized)">>

\* a group of seven samples with a basis was split into three sub-groups, the
\* last one larger than the others, next to a group that was not split
C5_Witness ==
    /\ Balanced
    /\ Len(stage_input) = 2
    /\ IsSplit(1) /\ ~IsSplit(2)
    /\ Len(stage_input[1].samples) = 7
    /\ "basis" \in DOMAIN stage_input[1]
    /\ Len(SubGroupsOf(1)) = 3
    /\ Len(SubGroupsOf(1)[3].samples) > Len(SubGroupsOf(1)[1].samples)

\* some row of the table joins a and b with a similarity of at least t
HighRow(a, b, t) ==
    \E i \in 1..Len(pairwise_df) :
        /\ {pairwise_df[i].Sample1, pairwise_df[i].Sample2} = {a, b}
        /\ pairwise_df[i].Similarity >= t

\* the samples reachable from those of S over rows of similarity at least t
RECURSIVE Reachable(_, _)
Reachable(S, t) ==
    LET next == S \cup {b \in SampleIds : \E a \in S : HighRow(a, b, t)}
    IN  IF next = S THEN S ELSE Reachable(next, t)

\* the graph builder has run on pairwise_df and returned groups
Built == pc = "refine"

\* the number of samples of the group of gs that holds s
GroupSizeOf(gs, s) ==
    Len(gs[CHOOSE i \in 1..Len(gs) : s \in Range(gs[i].samples)].samples)

\* the groups the builder returns for the same table, maximum size and hash
\* order at the threshold t
BuiltAt(t) == CreateKmerBasedGroups(pairwise_df, t, max_group_size, iter_order)

\* no connected component at the threshold of the run exceeds max_group_size
NoComponentCapped ==
    \A s \in TableSamples :
        Cardinality(Reachable({s}, similarity_threshold)) <= max_group_size

\* C6 (for every table): for the same table, max_group_size and iteration
\* order and thresholds t1 <= t2, the group of every sample built at t2 has no
\* more samples than its group built at t1.
C6_ThresholdMonotone ==
    Built =>
        \A t \in Thresholds :
            t >= similarity_threshold =>
                \A s \in TableSamples :
                    GroupSizeOf(BuiltAt(t), s) <= GroupSizeOf(groups, s)

\* C6 (for tables no component of which is capped): for the same table,
\* max_group_size and iteration order and thresholds t1 <= t2 such that no
\* connected component of the rows with Similarity >= t1 has more than
\* max_group_size samples, the group of every sample built at t2 has no more
\* samples than its group built at t1.
C6_ThresholdMonotoneUncapped ==
    (Built /\ NoComponentCapped) =>
        \A t \in Thresholds :
            t >= similarity_threshold =>
                \A s \in TableSamples :
                    GroupSizeOf(BuiltAt(t), s) <= GroupSizeOf(groups, s)

\* no component is capped, and at a higher threshold the group of one sample
\* shrinks while another group still has two samples
C6_Witness ==
    /\ Built /\ NoComponentCapped
    /\ \E t \in Thresholds :
          /\ t > similarity_threshold
          /\ \E s \in TableSamples : GroupSizeOf(BuiltAt(t), s) < GroupSizeOf(groups, s)
          /\ \E s \in TableSamples : GroupSizeOf(BuiltAt(t), s) >= 2

\* C7: the refiner applied to its own output, with the same metadata and
\* variables, returns that output: the same groups in the same order.
C7_RefineIdempotent == pc = "refined twice" => groups = stage_input

\* the second pass ran on a list holding a group the first pass kept and the
\* groups it made of another
C7_Witness ==
    /\ pc = "refined twice"
    /\ \E i \in 1..Len(groups) :
          Len(groups[i].samples) > 1 /\ StartsWith(groups[i], LitConsistent)
    /\ \E i \in 1..Len(groups) : StartsWith(groups[i], LitSplit)

\* the estimator has run on the list stage_input and returned groups
Estimated == pc = "summarize"

\* trunc(min(hi, max(lo, reads / per))), computed on the numerators over per
TruncMinMax(reads, per, lo, hi) == Min2(hi * per, Max2(lo * per, reads)) \div per

\* C8: estimated_reads = len(samples) * avg_reads_per_sample; an 'individual'
\* group gets trunc(min(8, max(4, reads / 5,000,000))) GB and
\* trunc(min(4, max(1, reads / 10,000,000))) hours, a 'co-assembly' group
\* trunc(min(64, max(16, reads / 2,000,000))) GB and
\* trunc(min(12, max(2, reads / 5,000,000))) hours.
C8_Estimates ==
    Estimated =>
        \A i \in 1..Len(groups) :
            LET g == groups[i]
                reads == Len(g.samples) * avg_reads_per_sample
            IN  /\ g.estimated_reads = reads
                /\ g.strategy = "individual" =>
                      /\ g.estimated_memory_gb = TruncMinMax(reads, 5000000, 4, 8)
                      /\ g.estimated_time_hours = TruncMinMax(reads, 10000000, 1, 4)
                /\ g.strategy = "co-assembly" =>
                      /\ g.estimated_memory_gb = TruncMinMax(reads, 2000000, 16, 64)
                      /\ g.estimated_time_hours = TruncMinMax(reads, 5000000, 2, 12)

\* three co-assembled samples at 10,000,000 reads each: 30,000,000 reads, 16 GB,
\* 6 hours
C8_Witness ==
    /\ Estimated
    /\ avg_reads_per_sample = 10000000
    /\ \E i \in 1..Len(groups) :
          /\ groups[i].strategy = "co-assembly"
          /\ Len(groups[i].samples) = 3
          /\ groups[i].estimated_reads = 30000000
          /\ groups[i].estimated_memory_gb = 16
          /\ groups[i].estimated_time_hours = 6

\* C9: for avg_reads_per_sample >= 0, of two groups of the same strategy the one
\* with no more samples gets no more memory and no more time.
C9_EstimatesMonotone ==
    (Estimated /\ avg_reads_per_sample >= 0) =>
        \A i, j \in 1..Len(groups) :
            (groups[i].strategy = groups[j].strategy
             /\ Len(groups[i].samples) <= Len(groups[j].samples)) =>
                /\ groups[i].estimated_memory_gb <= groups[j].estimated_memory_gb
                /\ groups[i].estimated_time_hours <= groups[j].estimated_time_hours

\* two co-assembly groups, the larger with strictly more memory and time
C9_Witness ==
    /\ Estimated /\ avg_reads_per_sample > 0
    /\ \E i, j \in 1..Len(groups) :
          /\ groups[i].strategy = "co-assembly" /\ groups[j].strategy = "co-assembly"
          /\ Len(groups[i].samples) < Len(groups[j].samples)
          /\ groups[i].estimated_memory_gb < groups[j].estimated_memory_gb
          /\ groups[i].estimated_time_hours < groups[j].estimated_time_hours

\* C10: every sample of the table that is in no row with
\* Similarity >= similarity_threshold is returned by the graph builder as a
\* group of its own with strategy 'individual' and basis 'no similar samples',
\* also when no row meets the threshold.
C10_UnconnectedIndividual ==
    Built =>
        \A s \in TableSamples :
            (\A b \in SampleIds : ~HighRow(s, b, similarity_threshold)) =>
                \E i \in 1..Len(groups) :
                    /\ groups[i].samples = <<s>>
                    /\ groups[i].strategy = "individual"
                    /\ "basis" \in DOMAIN groups[i]
                    /\ groups[i].basis = <<"no similar samples">>

\* sample s is in a row of similarity at least the threshold of the run: it is
\* a key of `connections`, and the traversal finds its group
HasHighRow(s) == \E b \in SampleIds : HighRow(s, b, similarity_threshold)

\* C11: every group the builder finds by the component traversal gets its
\* strategy from its size alone: a component of one sample is 'individual' with
\* basis 'no similar samples', a component of more than one sample is
\* 'co-assembly' with basis 'k-mer similarity'.
C11_StrategyFromSize ==
    Built =>
        \A i \in 1..Len(groups) :
            HasHighRow(groups[i].samples[1]) =>
                /\ Len(groups[i].samples) = 1 =>
                      /\ groups[i].strategy = "individual"
                      /\ groups[i].basis = <<"no similar samples">>
                /\ Len(groups[i].samples) > 1 =>
                      /\ groups[i].strategy = "co-assembly"
                      /\ groups[i].basis = <<"k-mer similarity">>

\* the traversal found a component of more than one sample and, for a sample
\* the size cap kept out of it, a component of one sample
C11_Witness ==
    /\ Built
    /\ \E i \in 1..Len(groups) :
          HasHighRow(groups[i].samples[1]) /\ Len(groups[i].samples) > 1
    /\ \E i \in 1..Len(groups) :
          HasHighRow(groups[i].samples[1]) /\ Len(groups[i].samples) = 1

\* C12: for max_group_size >= 1, every group the builder returns has at most
\* max_group_size samples, and no sample of the table is lost: a sample that is
\* reachable only through a component that reached max_group_size is in one
\* group of its own or with others.
C12_GroupsWithinMax ==
    (Built /\ max_group_size >= 1) =>
        /\ \A i \in 1..Len(groups) : Len(groups[i].samples) <= max_group_size
        /\ \A s \in TableSamples : Cardinality(Places(groups, s)) = 1

\* a component reached max_group_size, and a sample joined by a high row to one
\* of its samples is in a later group
C12_Witness ==
    /\ Built
    /\ \E i, j \in 1..Len(groups) :
          /\ i < j
          /\ Len(groups[i].samples) = max_group_size
          /\ \E a \in Range(groups[i].samples), b \in Range(groups[j].samples) :
                HighRow(a, b, similarity_threshold)

\* the connected components of the graph of the rows at the threshold of the
\* run, over the samples of the table
ConnectedComponents == {Reachable({s}, similarity_threshold) : s \in TableSamples}

\* C13: when no connected component of the graph of the rows with
\* Similarity >= similarity_threshold has more than max_group_size samples, the
\* groups returned are exactly the connected components, each once: the
\* components of several samples and one group for every remaining sample.
C13_GroupsAreComponents ==
    (Built /\ NoComponentCapped) =>
        /\ {Range(groups[i].samples) : i \in 1..Len(groups)} = ConnectedComponents
        /\ Len(groups) = Cardinality(ConnectedComponents)

\* one row at the threshold and one below it: a component of two samples and
\* the two samples of the other row each on their own
C13_Witness ==
    /\ Built /\ NoComponentCapped
    /\ Len(groups) = 3
    /\ \E i \in 1..Len(groups) :
          Len(groups[i].samples) = 2 /\ groups[i].strategy = "co-assembly"
    /\ Cardinality({i \in 1..Len(groups) : groups[i].strategy = "individual"}) = 2

\* the groups of the list gs share no sample
PairwiseDisjoint(gs) ==
    \A i, j \in 1..Len(gs) :
        i # j => Range(gs[i].samples) \cap Range(gs[j].samples) = {}

\* the refiner, the balancer or the estimator has run on stage_input and
\* returned groups
StageDone == pc \in {"optimize", "estimate", "summarize"}

\* the groups of stage_input that hold every sample of the group g
ParentsOf(g) ==
    {i \in 1..Len(stage_input) : Range(g.samples) \subseteq Range(stage_input[i].samples)}

\* C14: the refiner, the balancer and the estimator never merge: when the
\* groups a stage is given are pairwise disjoint, the samples of every group it
\* returns lie within exactly one of the groups it was given, and it returns at
\* least as many groups as it was given.
C14_NoMerging ==
    (StageDone /\ PairwiseDisjoint(stage_input)) =>
        /\ \A j \in 1..Len(groups) : Cardinality(ParentsOf(groups[j])) = 1
        /\ Len(groups) >= Len(stage_input)

\* the three stages have run on two groups: the refiner split one by a
\* variable, the balancer split the other by size, and the estimator was given
\* and returned more groups than the two at the start
C14_Witness ==
    /\ pc = "summarize"
    /\ PairwiseDisjoint(stage_input)
    /\ Len(groups) > 2
    /\ \E j \in 1..Len(groups) : StartsWith(groups[j], LitSplit)
    /\ \E j \in 1..Len(groups) :
          /\ "basis" \in DOMAIN groups[j]
          /\ groups[j].basis[Len(groups[j].basis)] = " (size-optimized)"

\* the refiner has run on the list stage_input and returned groups
Refined == pc = "optimize"

\* the refiner was given metadata and at least one important variable
RefinementOn == metadata # NoMetadata /\ Len(important_vars) > 0

\* the cells of the column var in the metadata rows of the samples of group g
CellsOf(g, var) ==
    {metadata.rows[k][var] :
        k \in {n \in 1..Len(metadata.rows) : metadata.rows[n].Sample \in Range(g.samples)}}

\* the cells that hold a value
Known(cells) == {c \in cells : ~c.na}

\* the positions in important_vars of the variables that flag group g: columns
\* (categorical ones, as all columns of the frames here are) with more than one
\* distinct value among the rows of the group
FlaggedVars(g) ==
    {k \in 1..Len(important_vars) :
        /\ important_vars[k] \in metadata.columns
        /\ Cardinality(Known(CellsOf(g, important_vars[k]))) > 1}

\* the least member of a non-empty set of numbers
Least(S) == CHOOSE k \in S : \A n \in S : k <= n

\* group g of the input is in the output with the same samples and strategy
KeptWhole(g) ==
    \E j \in 1..Len(groups) :
        groups[j].samples = g.samples /\ groups[j].strategy = g.strategy

\* C15: the refiner decomposes a group of more than one sample exactly when at
\* least one important variable flags it. A decomposed group gives exactly one
\* 'individual' group per sample, with a basis that starts with
\* 'variable-based split: ' followed by the reasons ('different X values: ...'
\* for a categorical variable X); a group that no variable flags stays whole.
C15_SplitIffFlagged ==
    Refined =>
        \A i \in 1..Len(stage_input) :
            LET g == stage_input[i]
            IN  Len(g.samples) > 1 =>
                    IF RefinementOn /\ FlaggedVars(g) # {}
                    THEN /\ ~KeptWhole(g)
                         /\ \A s \in Range(g.samples) :
                               /\ Cardinality(Places(groups, s)) = 1
                               /\ \E j \in 1..Len(groups) :
                                     /\ groups[j].samples = <<s>>
                                     /\ groups[j].strategy = "individual"
                                     /\ StartsWith(groups[j],
                                           <<"variable-based split: ", "different ",
                                             important_vars[Least(FlaggedVars(g))],
                                             " values: ">>)
                    ELSE /\ KeptWhole(g)
                         /\ \A s \in Range(g.samples) : Cardinality(Places(groups, s)) = 1

\* {S1, S2, S3} with Host A, A, B became three individual groups
C15_Witness ==
    /\ Refined /\ RefinementOn
    /\ \E i \in 1..Len(stage_input) :
          /\ Len(stage_input[i].samples) = 3
          /\ stage_input[i].strategy = "co-assembly"
          /\ \E k \in 1..Len(metadata.rows) :
                metadata.rows[k].Sample = stage_input[i].samples[3]
                /\ metadata.rows[k].Host = Val("B")
          /\ \A n \in 1..2 : \E k \in 1..Len(metadata.rows) :
                metadata.rows[k].Sample = stage_input[i].samples[n]
                /\ metadata.rows[k].Host = Val("A")
          /\ \A n \in 1..3 : \E j \in 1..Len(groups) :
                /\ groups[j].samples = <<stage_input[i].samples[n]>>
                /\ groups[j].strategy = "individual"
                /\ StartsWith(groups[j], LitSplit)

\* some cell of an important column is missing among the rows of group g
HasMissing(g) ==
    \E k \in 1..Len(important_vars) :
        /\ important_vars[k] \in metadata.columns
        /\ NaN \in CellsOf(g, important_vars[k])

\* C16: a missing metadata value is no category of its own: a group with
\* missing values whose values that are not missing are all equal, for every
\* important column, is not flagged and stays whole, also when every value is
\* missing.
C16_MissingIsNoCategory ==
    (Refined /\ RefinementOn) =>
        \A i \in 1..Len(stage_input) :
            LET g == stage_input[i]
            IN  (/\ Len(g.samples) > 1
                 /\ HasMissing(g)
                 /\ \A k \in 1..Len(important_vars) :
                       important_vars[k] \in metadata.columns =>
                           Cardinality(Known(CellsOf(g, important_vars[k]))) <= 1)
                    => /\ KeptWhole(g)
                       /\ ~\E j \in 1..Len(groups) :
                             /\ groups[j].samples[1] \in Range(g.samples)
                             /\ StartsWith(groups[j], LitSplit)

\* two groups stayed whole: one with a value and a missing value of Host, one
\* whose values of Host are all missing
C16_Witness ==
    /\ Refined /\ RefinementOn
    /\ "Host" \in Range(important_vars)
    /\ Len(stage_input) = 2 /\ Len(groups) = 2
    /\ CellsOf(stage_input[1], "Host") = {Val("A"), NaN}
    /\ CellsOf(stage_input[2], "Host") = {NaN}
    /\ Len(stage_input[2].samples) = 2
    /\ \A j \in 1..2 : StartsWith(groups[j], LitConsistent)

\* C17: without metadata, or without important variables, the refiner returns
\* the groups it was given; with metadata that has no row for any sample of a
\* co-assembly group, it returns that group as it was, basis included.
C17_MissingInputPassesThrough ==
    Refined =>
        /\ (metadata = NoMetadata \/ Len(important_vars) = 0) => groups = stage_input
        /\ RefinementOn =>
              \A i \in 1..Len(stage_input) :
                  (/\ stage_input[i].strategy = "co-assembly"
                   /\ \A k \in 1..Len(metadata.rows) :
                         metadata.rows[k].Sample \notin Range(stage_input[i].samples))
                      => \E j \in 1..Len(groups) : groups[j] = stage_input[i]

\* the metadata has rows for the first group only: the second, a co-assembly
\* group with the basis 'k-mer similarity', came back as it was, while the
\* basis of the first was rewritten
C17_Witness ==
    /\ Refined /\ RefinementOn
    /\ Len(stage_input) = 2 /\ Len(groups) = 2
    /\ Len(metadata.rows) > 0
    /\ stage_input[2].strategy = "co-assembly"
    /\ Len(stage_input[2].samples) > 1
    /\ \A k \in 1..Len(metadata.rows) :
          metadata.rows[k].Sample \notin Range(stage_input[2].samples)
    /\ StartsWith(stage_input[2], <<"k-mer similarity">>)
    /\ groups[2] = stage_input[2]
    /\ groups[1] # stage_input[1]

\* the similarity file is missing, or its table has no rows
NoSimilarityData == ~pairwise_file.exists \/ Len(pairwise_file.rows) = 0

\* C18: when the similarity file is missing or its table has no rows, the
\* driver never reaches the outcome 'completed successfully', and where it
\* stops it has failed (exit status 1).
C18_NoDataIsFatal ==
    NoSimilarityData =>
        /\ pc # "done"
        /\ ~(ENABLED Next) => pc = "failed"

\* a table without rows went through the four stages, which returned no group,
\* and the driver failed at the summary
C18_Witness ==
    /\ pc = "failed"
    /\ pairwise_file.exists
    /\ Len(pairwise_file.rows) = 0
    /\ groups = <<>>

\* the partition a group list makes of its samples
PartitionOf(gs) == {Range(gs[i].samples) : i \in 1..Len(gs)}

\* C19: for a fixed table, threshold and max_group_size the partition the
\* builder returns is the same under every order in which the sets of samples
\* (a neighbour set, the set of all samples) are iterated.
C19_PartitionDetermined ==
    Built =>
        \A o \in Orders(SampleIds) :
            PartitionOf(CreateKmerBasedGroups(pairwise_df, similarity_threshold,
                                              max_group_size, o))
                = PartitionOf(groups)

\* C20: with 1 <= min_group_size <= target_group_size <= max_group_size, every
\* 'co-assembly' group the balancer returns has at least min_group_size samples.
C20_CoAssemblyAtLeastMin ==
    (Balanced /\ SizesInOrder) =>
        \A i \in 1..Len(groups) :
            groups[i].strategy = "co-assembly" =>
                Len(groups[i].samples) >= min_group_size

\* the samples of G reachable from those of S over rows of similarity at least
\* the threshold of the run, without leaving G
RECURSIVE ReachableWithin(_, _)
ReachableWithin(S, G) ==
    LET next == S \cup {b \in G : \E a \in S : HighRow(a, b, similarity_threshold)}
    IN  IF next = S THEN S ELSE ReachableWithin(next, G)

\* C21: any two samples of a group the builder returns are linked by a path of
\* rows with Similarity >= similarity_threshold (equality included) whose
\* samples all belong to that group.
C21_GroupsAreConnected ==
    Built =>
        \A i \in 1..Len(groups) :
            \A s \in Range(groups[i].samples) :
                ReachableWithin({s}, Range(groups[i].samples)) = Range(groups[i].samples)

\* a group of three samples, two of which are joined by no row at the
\* threshold but only by a path through the third, over a row whose similarity
\* equals the threshold
C21_Witness ==
    /\ Built
    /\ \E i \in 1..Len(groups) :
          /\ Len(groups[i].samples) = 3
          /\ \E a, b \in Range(groups[i].samples) :
                a # b /\ ~HighRow(a, b, similarity_threshold)
    /\ \E k \in 1..Len(pairwise_df) : pairwise_df[k].Similarity = similarity_threshold

\* the important variables confirmed consistent for group g, in the order of
\* important_vars: columns of the metadata with at least one value among the
\* rows of the group (and, for a kept group, not flagged)
ConfirmedVars(g) ==
    SelectSeq(important_vars,
              LAMBDA var : var \in metadata.columns /\ Known(CellsOf(g, var)) # {})

\* group g of the input has metadata rows
HasRows(g) ==
    \E k \in 1..Len(metadata.rows) : metadata.rows[k].Sample \in Range(g.samples)

\* C22: the basis the refiner writes on a co-assembly group it keeps names
\* exactly the important variables confirmed consistent for the group (columns
\* of the metadata with a value in the group), and no variable that was skipped.
C22_KeptBasisNamesConfirmed ==
    (Refined /\ RefinementOn) =>
        \A i \in 1..Len(stage_input) :
            LET g == stage_input[i]
            IN  (/\ g.strategy = "co-assembly"
                 /\ Len(g.samples) > 1
                 /\ HasRows(g)
                 /\ FlaggedVars(g) = {})
                    => \E j \in 1..Len(groups) :
                          /\ groups[j].samples = g.samples
                          /\ groups[j].basis = <<"k-mer similarity + consistent ">>
                                \o JoinNames(ConfirmedVars(g), ", ")

\* the values of the column var in the metadata rows of the samples of group
\* g that hold one, in the order of the rows
KnownValues(g, var) ==
    LET rows == SelectSeq(metadata.rows,
                          LAMBDA r : r.Sample \in Range(g.samples) /\ ~r[var].na)
    IN  [k \in 1..Len(rows) |-> rows[k][var].v]

\* stdev / mean > 0.3 for the numbers vals (sample standard deviation, as
\* Series.std() computes it), on whole numbers: with n values of sum S,
\* stdev^2 = sum (n v - S)^2 / (n^2 (n - 1)) and mean = S / n; a mean of 0
\* counts as an infinite quotient, a negative mean gives a negative one
CvAboveLimit(vals) ==
    LET n == Len(vals)
        S == SumSeq(vals)
        D == SumSeq([k \in 1..n |-> (n * vals[k] - S) * (n * vals[k] - S)])
    IN  \/ S = 0
        \/ S > 0 /\ 100 * D > 9 * (n - 1) * S * S

\* the variable var is handled as categorical for group g: a text column, or at
\* most 10 distinct values in the group
IsCategorical(g, var) ==
    metadata.dtype[var] = "object" \/ Cardinality(Range(KnownValues(g, var))) <= 10

\* the group g of the input was decomposed with a reason that starts with lit
\* and names var
DecomposedFor(g, lit, var) ==
    \A s \in Range(g.samples) :
        \E j \in 1..Len(groups) :
            /\ groups[j].samples = <<s>>
            /\ groups[j].strategy = "individual"
            /\ StartsWith(groups[j], <<"variable-based split: ", lit, var>>)

\* C23: a variable is handled as categorical when its column is text or it has
\* at most 10 distinct values in the group, and as continuous otherwise; a
\* continuous variable flags the group exactly when stdev / mean of its values
\* exceeds 0.3, a mean of 0 counting as an infinite quotient. (A categorical
\* variable flags the group when it has more than one distinct value.)
C23_Classification ==
    (pc = "optimize" /\ Len(KnownValues(stage_input[1], "pH")) > 0) =>
        LET g == stage_input[1]
            vals == KnownValues(g, "pH")
        IN  IF IsCategorical(g, "pH")
            THEN IF Cardinality(Range(vals)) > 1
                 THEN DecomposedFor(g, "different ", "pH")
                 ELSE KeptWhole(g)
            ELSE IF CvAboveLimit(vals)
                 THEN DecomposedFor(g, "high variability in ", "pH")
                 ELSE KeptWhole(g)

\* a column of numbers with more than 10 distinct values and a mean of 0 was
\* handled as continuous and flagged, with CV=inf in the reason
C23_Witness ==
    /\ pc = "optimize"
    /\ metadata.dtype["pH"] = "float64"
    /\ Cardinality(Range(KnownValues(stage_input[1], "pH"))) > 10
    /\ SumSeq(KnownValues(stage_input[1], "pH")) = 0
    /\ StartsWith(groups[1], <<"variable-based split: ", "high variability in ", "pH",
                               " (CV=", "inf", ")">>)

\* names that are no column of any metadata frame
NoColumnNames == {"pH", "Depth"}

\* the list names with name put in after its first k members
InsertAt(names, k, name) ==
    SubSeq(names, 1, k) \o <<name>> \o SubSeq(names, k + 1, Len(names))

\* which samples are grouped together, and under which strategy
Grouping(gs) == {<<gs[i].samples, gs[i].strategy>> : i \in 1..Len(gs)}

\* C24: a name that is no column of the metadata takes no part in the
\* refiner's decision: put anywhere into the list of important variables, it
\* leaves the same groups decomposed and the same groups whole.
C24_NoColumnNoEffect ==
    Refined =>
        \A name \in NoColumnNames :
            \A k \in 0..Len(important_vars) :
                Grouping(RefineGroupsWithVariables(stage_input, metadata,
                                                   InsertAt(important_vars, k, name)))
                    = Grouping(groups)

\* the refiner ran with Host and pH, pH being no column, on two groups: it
\* decomposed one for its Host values and kept the other
C24_Witness ==
    /\ Refined /\ RefinementOn
    /\ important_vars = <<"Host", "pH">>
    /\ "pH" \notin metadata.columns
    /\ Len(stage_input) = 2
    /\ \E i, j \in 1..2 :
          /\ Len(stage_input[i].samples) > 1 /\ Len(stage_input[j].samples) > 1
          /\ FlaggedVars(stage_input[i]) # {} /\ ~KeptWhole(stage_input[i])
          /\ HasRows(stage_input[j]) /\ KeptWhole(stage_input[j])
          /\ \E n \in 1..Len(groups) :
                groups[n].samples = stage_input[j].samples
                /\ StartsWith(groups[n], LitConsistent)

\* the group h of the balancer's output comes from a group of its input that
\* the balancer does not split (the input groups are disjoint)
FromUnsplit(h) ==
    \E i \in 1..Len(stage_input) :
        ~IsSplit(i) /\ h.samples[1] \in Range(stage_input[i].samples)

\* C25: the balancer returns every 'individual' group and every 'co-assembly'
\* group of at most max_group_size samples as it was given (same samples in
\* the same order, same strategy, same basis or none), in the order in which
\* they were given.
C25_BalancerFrame ==
    Balanced =>
        SelectSeq(groups, LAMBDA h : FromUnsplit(h))
            = SelectSeq(stage_input,
                        LAMBDA g : g.strategy = "individual"
                                   \/ Len(g.samples) <= max_group_size)

\* a group that was split, followed by a co-assembly group of exactly
\* max_group_size samples with a basis, which is the last group returned
C25_Witness ==
    /\ Balanced
    /\ Len(stage_input) = 2
    /\ IsSplit(1)
    /\ stage_input[2].strategy = "co-assembly"
    /\ Len(stage_input[2].samples) = max_group_size
    /\ "basis" \in DOMAIN stage_input[2]
    /\ Len(groups) > 2
    /\ groups[Len(groups)] = stage_input[2]

\* the three fields the estimator writes
EstimateFields == {"estimated_memory_gb", "estimated_time_hours", "estimated_reads"}

\* C26: the estimator changes nothing but the three estimate fields: it
\* returns as many groups as it was given, in the same order, each with the
\* samples, the strategy and the basis (or none) it had.
C26_EstimatorFrame ==
    Estimated =>
        /\ Len(groups) = Len(stage_input)
        /\ \A i \in 1..Len(groups) :
              /\ DOMAIN groups[i] = DOMAIN stage_input[i] \cup EstimateFields
              /\ \A f \in DOMAIN stage_input[i] \ EstimateFields :
                    groups[i][f] = stage_input[i][f]

\* two groups went through the estimator, an individual one without a basis
\* and a co-assembly one with a basis
C26_Witness ==
    /\ Estimated
    /\ Len(stage_input) = 2 /\ Len(groups) = 2
    /\ groups[1].strategy = "individual" /\ "basis" \notin DOMAIN groups[1]
    /\ groups[2].strategy = "co-assembly" /\ StartsWith(groups[2], LitKmer)
    /\ EstimateFields \subseteq DOMAIN groups[1] \cap DOMAIN groups[2]

\* C27: the summary the driver writes agrees with the final groups:
\* total_groups = individual_assemblies + co_assemblies, total_samples is the
\* number of distinct samples of the similarity table, and largest_group_size
\* is at most the max_group_size of the run.
C27_SummaryConsistent ==
    pc = "done" =>
        /\ summary.total_groups = Len(groups)
        /\ summary.total_groups = summary.individual_assemblies + summary.co_assemblies
        /\ summary.total_samples = Cardinality(TableSamples)
        /\ summary.largest_group_size <= max_group_size

\* a run on four samples that ended with individual and co-assembly groups,
\* the largest of them of max_group_size samples
C27_Witness ==
    /\ pc = "done"
    /\ summary.total_samples = 4
    /\ summary.individual_assemblies > 0
    /\ summary.co_assemblies > 0
    /\ summary.largest_group_size = max_group_size

\* the basis of group g ends in ' (size-optimized)'
SizeOptimized(g) ==
    "basis" \in DOMAIN g /\ Len(g.basis) > 0 /\ g.basis[Len(g.basis)] = " (size-optimized)"

\* C28: in the driver, which hands the same max_group_size to the builder and
\* to the balancer, the balancer splits nothing: it returns the list it was
\* given, and no basis ever ends in ' (size-optimized)'.
C28_BalancerIdleInDriver ==
    /\ pc = "estimate" => groups = stage_input
    /\ \A i \in 1..Len(groups) : ~SizeOptimized(groups[i])

\* the balancer of the driver was given a co-assembly group of exactly
\* max_group_size samples, left of a component that the cap cut, and
\* returned the list as it was
C28_Witness ==
    /\ pc = "estimate"
    /\ groups = stage_input
    /\ ~NoComponentCapped
    /\ \E i \in 1..Len(groups) :
          groups[i].strategy = "co-assembly" /\ Len(groups[i].samples) = max_group_size

\* C29: for a co-assembly group of at most 10 samples the refiner never takes
\* the coefficient-of-variation branch: a column of numbers decomposes the
\* group, with a 'different ... values' reason, exactly when the values the
\* group has of it are not all equal, however small their spread.
C29_SmallGroupCategorical ==
    (pc = "optimize" /\ stage_input[1].strategy = "co-assembly"
     /\ Len(stage_input[1].samples) <= 10) =>
        LET g == stage_input[1]
        IN  IF Cardinality(Known(CellsOf(g, "pH"))) > 1
            THEN DecomposedFor(g, "different ", "pH")
            ELSE KeptWhole(g) /\ Len(groups) = 1

\* ten samples with the numbers 100 and 101 in a float64 column, a spread far
\* below the limit of the coefficient of variation: the group was decomposed
C29_Witness ==
    /\ pc = "optimize"
    /\ Len(stage_input[1].samples) = 10
    /\ metadata.dtype["pH"] = "float64"
    /\ Known(CellsOf(stage_input[1], "pH")) = {Val(100), Val(101)}
    /\ Len(groups) = 10
    /\ StartsWith(groups[1], <<"variable-based split: ", "different ", "pH">>)

\* group g of the builder's output has the basis 'no similar samples'
NoSimilarBasis(g) == "basis" \in DOMAIN g /\ g.basis = <<"no similar samples">>

\* C30 (for every table): a group with the basis 'no similar samples' has a
\* single sample, and no row with Similarity >= similarity_threshold joins
\* that sample to a different one.
C30_NoSimilarMeansNoHighRow ==
    Built =>
        \A i \in 1..Len(groups) :
            NoSimilarBasis(groups[i]) =>
                /\ Len(groups[i].samples) = 1
                /\ \A b \in SampleIds \ {groups[i].samples[1]} :
                      ~HighRow(groups[i].samples[1], b, similarity_threshold)

\* C30 (with the size cap): a group with the basis 'no similar samples' has a
\* single sample, and every different sample that a row with
\* Similarity >= similarity_threshold joins to it is in a group of exactly
\* max_group_size samples.
C30_NoSimilarOrNeighboursFull ==
    Built =>
        \A i \in 1..Len(groups) :
            NoSimilarBasis(groups[i]) =>
                /\ Len(groups[i].samples) = 1
                /\ \A b \in SampleIds \ {groups[i].samples[1]} :
                      HighRow(groups[i].samples[1], b, similarity_threshold) =>
                          GroupSizeOf(groups, b) = max_group_size

\* with max_group_size 2 or more: a group with the basis 'no similar samples'
\* whose sample is joined by a row at the threshold to a sample of a full
\* group
C30_Witness ==
    /\ Built
    /\ max_group_size >= 2
    /\ \E i \in 1..Len(groups) :
          /\ NoSimilarBasis(groups[i])
          /\ \E b \in SampleIds \ {groups[i].samples[1]} :
                /\ HighRow(groups[i].samples[1], b, similarity_threshold)
                /\ GroupSizeOf(groups, b) = max_group_size

====
